---- MODULE Spec2Model ----
(***************************************************************************)
(* Synthetic sample generator of the notebook "Object Detection - Multiple *)
(* Objects": generate_sample, create_dataset and the top-level cells that  *)
(* call them.  One run is one execution of the notebook (one Python        *)
(* process with its own globals and its own `random` source); Runs holds   *)
(* two of them so that two executions can be compared.                     *)
(*                                                                         *)
(* The random source is modelled by the stream of raw values it will       *)
(* deliver: the seed fixes the stream, a draw takes its head.  Normalised   *)
(* coordinates are exact rationals <<numerator, denominator>> (division by *)
(* 64 is exact in binary floating point).                                  *)
(***************************************************************************)
EXTENDS Integers, Sequences, FiniteSets, TLC

\* ---------------------------------------------------------------- bounds
MaxSamples == 2

\* ------------------------------------------------------ program constants
DefaultImgSize == 64
DefaultNumClasses == 2
RandLo == 5
RandHi == 30
ShapeSize == 20
PixelScale == 255
TfSeed == 42

Runs == {1, 2}

\* raw values the random source may deliver (before reduction to a range)
EdgeRaw == {0, 25}
RichRaw == {0, 10, 15, 25, 31}

\* streams for one direct generate_sample call, with varied values
RichSeeds == [1..(2 * DefaultNumClasses) -> RichRaw]
\* streams long enough for create_dataset(MaxSamples), extreme values only
EdgeSeeds == [1..(2 * DefaultNumClasses * MaxSamples) -> EdgeRaw]
\* a few long streams, for comparing two runs
PairSeeds == {s \in EdgeSeeds : \A i \in 1..(Len(s) - 3) : s[i + 3] = s[i]}
\* the long streams two runs side by side are started from
TwinSeeds == {s \in PairSeeds : s[1] = 0}
\* canvas sizes a configuration may set
ImgSizes == {40, 49, 50, 64}

\* confidences a model may predict for one class
Confidences == {<<1, 4>>, <<1, 2>>, <<3, 4>>}
\* the position in the dataset a prediction is shown for (the default idx = 0)
IdxInputs == {0}
\* two different boxes a model may predict, normalised
PredBoxA == <<<<8, 64>>, <<8, 64>>, <<32, 64>>, <<32, 64>>>>
PredBoxB == <<<<16, 64>>, <<24, 64>>, <<48, 64>>, <<40, 64>>>>

\* class counts a configuration may set, and streams long enough for one
\* sample of the largest
ClassCounts == {2, 3}
ClassSeeds == [1..6 -> EdgeRaw]

VARIABLES IMG_SIZE, NUM_CLASSES, rng, pc, num_samples, i, X, y_cls, y_bbox,
          result, calls, trace, rng0, fig, tf_seed

vars == <<IMG_SIZE, NUM_CLASSES, rng, pc, num_samples, i, X, y_cls, y_bbox,
          result, calls, trace, rng0, fig, tf_seed>>

\* ------------------------------------------------------------- arithmetic
\* the quotient n / d as an exact rational <<numerator, denominator>>, d > 0;
\* rationals are compared by cross-multiplication, never structurally
Frac(n, d) == <<n, d>>

REq(a, b) == a[1] * b[2] = b[1] * a[2]
RLt(a, b) == a[1] * b[2] < b[1] * a[2]
RLeq(a, b) == a[1] * b[2] <= b[1] * a[2]
RMul(a, n) == <<a[1] * n, a[2]>>
RSub(a, b) == <<a[1] * b[2] - b[1] * a[2], a[2] * b[2]>>

\* ----------------------------------------------------------- the library
\* random.randint(a, b): a + randbelow(b - a + 1); ValueError on empty range
\* variant: the arguments in the wrong order, randint(30, 5)
RandintOkSwapped(a, b) == b <= a
RandintOk(a, b) == a <= b
\* variant: the lower end of the range is not added
RandintNoLo(a, b, raw) == raw % (b - a + 1)
Randint(a, b, raw) == a + (raw % (b - a + 1))

\* np.zeros(n), indexed from 0
NpZeros(n) == [k \in 0..(n - 1) |-> 0]
\* np.zeros((n, 4))
NpZeros4(n) == [k \in 0..(n - 1) |-> <<Frac(0, 1), Frac(0, 1), Frac(0, 1), Frac(0, 1)>>]
\* np.array(list of equally shaped arrays): stacks them in list order
NpArray(list) == [k \in 1..Len(list) |-> list[k]]

\* --------------------------------------------------------- generate_sample
\* variant: the shape size is added twice
BoxOfDouble(x1, y1) == <<x1, y1, x1 + 2 * ShapeSize, y1 + 2 * ShapeSize>>
\* variant: the far corner is taken as the last covered pixel
BoxOfInclusive(x1, y1) == <<x1, y1, x1 + ShapeSize - 1, y1 + ShapeSize - 1>>
\* x2, y2 = x1 + 20, y1 + 20
BoxOf(x1, y1) == <<x1, y1, x1 + ShapeSize, y1 + ShapeSize>>

\* variant: the box is divided by the pixel scale instead of the canvas size
NormalizeByScale(box, S) ==
    <<Frac(box[1], PixelScale), Frac(box[2], PixelScale),
      Frac(box[3], PixelScale), Frac(box[4], PixelScale)>>
\* np.array([x1, y1, x2, y2]) / IMG_SIZE
Normalize(box, S) == <<Frac(box[1], S), Frac(box[2], S), Frac(box[3], S), Frac(box[4], S)>>

\* variant: only the first class is flagged
SetLabelFirst(labels, cls) == IF cls = 0 THEN [labels EXCEPT ![cls] = 1] ELSE labels
\* labels[cls] = 1
SetLabel(labels, cls) == [labels EXCEPT ![cls] = 1]

\* variant: the corners are passed as [y1, x1, y2, x2]
DrawShapeTransposed(ops, cls, box) ==
    LET t == <<box[2], box[1], box[4], box[3]>>
    IN IF cls = 0 THEN Append(ops, [shape |-> "rectangle", xy |-> t, fill |-> "red"])
       ELSE IF cls = 1 THEN Append(ops, [shape |-> "ellipse", xy |-> t, fill |-> "blue"])
       ELSE ops

\* variant: a later class is drawn underneath the earlier ones
DrawShapeUnder(ops, cls, box) ==
    IF cls = 0 THEN <<[shape |-> "rectangle", xy |-> box, fill |-> "red"]>> \o ops
    ELSE IF cls = 1 THEN <<[shape |-> "ellipse", xy |-> box, fill |-> "blue"]>> \o ops
    ELSE ops

\* the drawing calls: rectangle for class 0, ellipse for class 1, none else
DrawShape(ops, cls, box) ==
    IF cls = 0 THEN Append(ops, [shape |-> "rectangle", xy |-> box, fill |-> "red"])
    ELSE IF cls = 1 THEN Append(ops, [shape |-> "ellipse", xy |-> box, fill |-> "blue"])
    ELSE ops

\* variant: y1 is drawn before x1
RECURSIVE ClassLoopYFirst(_, _, _, _)
ClassLoopYFirst(cls, S, K, acc) ==
    IF cls >= K THEN acc
    ELSE LET y1 == Randint(RandLo, RandHi, acc.rng[1])
             x1 == Randint(RandLo, RandHi, acc.rng[2])
             box == BoxOf(x1, y1)
         IN ClassLoopYFirst(cls + 1, S, K,
                [ops    |-> DrawShape(acc.ops, cls, box),
                 labels |-> SetLabel(acc.labels, cls),
                 bboxes |-> [acc.bboxes EXCEPT ![cls] = Normalize(box, S)],
                 rng    |-> Tail(Tail(acc.rng))])

\* the body of "for cls in range(NUM_CLASSES)", from class cls on
RECURSIVE ClassLoop(_, _, _, _)
ClassLoop(cls, S, K, acc) ==
    IF cls >= K THEN acc
    ELSE LET x1 == Randint(RandLo, RandHi, acc.rng[1])
             y1 == Randint(RandLo, RandHi, acc.rng[2])
             box == BoxOf(x1, y1)
         IN ClassLoop(cls + 1, S, K,
                [ops    |-> DrawShape(acc.ops, cls, box),
                 labels |-> SetLabel(acc.labels, cls),
                 bboxes |-> [acc.bboxes EXCEPT ![cls] = Normalize(box, S)],
                 rng    |-> Tail(Tail(acc.rng))])

\* variant: a class-1 box that meets the class-0 box is moved clear of it
GenerateSampleAvoiding(S, K, st) ==
    LET acc == ClassLoop(0, S, K,
                  [ops |-> <<>>, labels |-> NpZeros(K),
                   bboxes |-> NpZeros4(K), rng |-> st])
        a == acc.bboxes[0]
        b == acc.bboxes[1]
        meet == /\ K >= 2
                /\ RLt(a[1], b[3]) /\ RLt(b[1], a[3])
                /\ RLt(a[2], b[4]) /\ RLt(b[2], a[4])
        moved == <<a[3], b[2], <<a[3][1] + ShapeSize, S>>, b[4]>>
    IN [ok        |-> TRUE,
        img_array |-> [size |-> S, ops |-> acc.ops, scale |-> PixelScale],
        labels    |-> acc.labels,
        bboxes    |-> IF meet THEN [acc.bboxes EXCEPT ![1] = moved] ELSE acc.bboxes,
        rng       |-> acc.rng]

\* generate_sample() with globals S, K and random source st; ok = FALSE when
\* a library call raises (Image.new on a negative size, randint on an empty
\* range)
GenerateSample(S, K, st) ==
    IF S < 0 \/ (K > 0 /\ ~RandintOk(RandLo, RandHi))
    THEN [ok |-> FALSE, rng |-> st]
    ELSE LET acc == ClassLoop(0, S, K,
                       [ops |-> <<>>, labels |-> NpZeros(K),
                        bboxes |-> NpZeros4(K), rng |-> st])
         IN [ok        |-> TRUE,
             img_array |-> [size |-> S, ops |-> acc.ops, scale |-> PixelScale],
             labels    |-> acc.labels,
             bboxes    |-> acc.bboxes,
             rng       |-> acc.rng]

\* the tuple generate_sample returns
Returned(s) == [img_array |-> s.img_array, labels |-> s.labels, bboxes |-> s.bboxes]

\* ------------------------------------------------------------- the canvas
\* the RGB value of a colour name
ColorRGB(name) ==
    IF name = "red" THEN <<255, 0, 0>>
    ELSE IF name = "blue" THEN <<0, 0, 255>>
    ELSE <<0, 0, 0>>

\* pixel (px, py) is filled by a drawing call: a rectangle fills its corner
\* range inclusively, an ellipse the pixels inside the ellipse inscribed in it
Covers(op, px, py) ==
    LET x1 == op.xy[1]
        y1 == op.xy[2]
        x2 == op.xy[3]
        y2 == op.xy[4]
        w == x2 - x1
        h == y2 - y1
    IN /\ x1 <= px /\ px <= x2 /\ y1 <= py /\ py <= y2
       /\ op.shape = "ellipse" =>
             (2 * px - (x1 + x2)) * (2 * px - (x1 + x2)) * h * h
               + (2 * py - (y1 + y2)) * (2 * py - (y1 + y2)) * w * w <= w * w * h * h

\* the canvas after the drawing calls: black where nothing was drawn, else
\* the fill of the last call that covers the pixel
CanvasPixel(ops, px, py) ==
    LET hits == {j \in DOMAIN ops : Covers(ops[j], px, py)}
    IN IF hits = {} THEN ColorRGB("black")
       ELSE ColorRGB(ops[CHOOSE j \in hits : \A h \in hits : h <= j].fill)

\* np.array(img) / 255.0 at pixel (px, py)
PixelAt(img_array, px, py) ==
    LET c == CanvasPixel(img_array.ops, px, py)
    IN <<Frac(c[1], img_array.scale), Frac(c[2], img_array.scale),
         Frac(c[3], img_array.scale)>>

\* ---------------------------------------------------------------- viewers
\* bboxes[cls] * IMG_SIZE
Denormalize(b, S) == <<RMul(b[1], S), RMul(b[2], S), RMul(b[3], S), RMul(b[4], S)>>

\* patches.Rectangle((x1, y1), x2 - x1, y2 - y1, edgecolor = color)
Rectangle(xyxy, color) ==
    [xy |-> <<xyxy[1], xyxy[2]>>, width |-> RSub(xyxy[3], xyxy[1]),
     height |-> RSub(xyxy[4], xyxy[2]), edgecolor |-> color]

\* the lists class_names and colors of plot_sample, indexed from 0
PlotNames == [k \in 0..1 |-> IF k = 0 THEN "square" ELSE "circle"]
PlotColors == [k \in 0..1 |-> IF k = 0 THEN "violet" ELSE "yellow"]

\* variant: the presence flag is not tested
PlotShownAll(labels) == DOMAIN labels
\* the classes plot_sample overlays: "if labels[cls]"
PlotShown(labels) == {k \in DOMAIN labels : labels[k] # 0}

\* plot_sample(img_array, labels, bboxes) up to plt.show(); ok = FALSE when
\* colors[cls] raises IndexError
PlotSampleFig(img_array, labels, bboxes, S) ==
    IF \E k \in PlotShown(labels) : k \notin DOMAIN PlotColors
    THEN [ok |-> FALSE]
    ELSE [ok |-> TRUE,
          fig |-> [kind    |-> "plot_sample",
                   image   |-> img_array,
                   given   |-> labels,
                   patches |-> [k \in PlotShown(labels) |->
                                  Rectangle(Denormalize(bboxes[k], S), PlotColors[k])],
                   texts   |-> [k \in PlotShown(labels) |->
                                  [x |-> RMul(bboxes[k][1], S),
                                   y |-> RSub(RMul(bboxes[k][2], S), <<5, 1>>),
                                   s |-> PlotNames[k], color |-> PlotColors[k]]]]]

\* the lists class_names and colors of show_prediction, indexed from 0
PredNames == [k \in 0..1 |-> IF k = 0 THEN "Red Square" ELSE "Blue Circle"]
PredColors == [k \in 0..1 |-> IF k = 0 THEN "violet" ELSE "yellow"]

\* variant: the threshold is compared with >=
PredShownAtLeast(pred_cls, K) == {k \in 0..(K - 1) : RLeq(<<1, 2>>, pred_cls[k])}
\* the class slots show_prediction overlays: "if confidence > 0.5"
PredShown(pred_cls, K) == {k \in 0..(K - 1) : RLt(<<1, 2>>, pred_cls[k])}

\* show_prediction(model, X, idx) after model.predict returned pred_cls and
\* pred_bbox, up to plt.show(); ok = FALSE when colors[i] raises IndexError
ShowPredictionFig(img, pred_cls, pred_bbox, S, K) ==
    IF \E k \in PredShown(pred_cls, K) : k \notin DOMAIN PredColors
    THEN [ok |-> FALSE]
    ELSE [ok |-> TRUE,
          fig |-> [kind    |-> "show_prediction",
                   image   |-> img,
                   given   |-> pred_cls,
                   boxes   |-> pred_bbox,
                   patches |-> [k \in PredShown(pred_cls, K) |->
                                  Rectangle(Denormalize(pred_bbox[k], S), PredColors[k])],
                   texts   |-> [k \in PredShown(pred_cls, K) |->
                                  [x |-> RMul(pred_bbox[k][1], S),
                                   y |-> RSub(RMul(pred_bbox[k][2], S), <<2, 1>>),
                                   s |-> PredNames[k], conf |-> pred_cls[k],
                                   color |-> PredColors[k]]]]]

\* ------------------------------------------------------------------ state
NoResult == [kind |-> "none"]
\* no figure is open
NoFigure == [kind |-> "none"]

InitWith(active, sizes, seeds) ==
    /\ IMG_SIZE \in [Runs -> sizes]
    /\ \A r \in Runs \ active : IMG_SIZE[r] = DefaultImgSize
    /\ NUM_CLASSES = [r \in Runs |-> DefaultNumClasses]
    /\ \E sd \in [active -> seeds] :
          rng = [r \in Runs |-> IF r \in active THEN sd[r] ELSE <<>>]
    /\ pc = [r \in Runs |-> IF r \in active THEN "setup" ELSE "off"]
    /\ fig = [r \in Runs |-> NoFigure]
    /\ tf_seed = [r \in Runs |-> 0]
    /\ num_samples = [r \in Runs |-> 0]
    /\ i = [r \in Runs |-> 0]
    /\ X = [r \in Runs |-> <<>>]
    /\ y_cls = [r \in Runs |-> <<>>]
    /\ y_bbox = [r \in Runs |-> <<>>]
    /\ result = [r \in Runs |-> NoResult]
    /\ calls = [r \in Runs |-> 0]
    /\ trace = [r \in Runs |-> <<>>]
    /\ rng0 = [r \in Runs |-> <<>>]

\* one execution of the notebook as written
Init == InitWith({1}, {DefaultImgSize}, RichSeeds \cup EdgeSeeds)

\* two executions side by side
InitPair == InitWith({1, 2}, {DefaultImgSize}, TwinSeeds)

\* one execution with the canvas size edited
InitCfg == InitWith({1}, ImgSizes, RichSeeds \cup PairSeeds)

\* one execution, from the short varied streams
InitPixel == InitWith({1}, {DefaultImgSize}, RichSeeds)

\* one execution with the class count edited
InitClasses ==
    /\ IMG_SIZE = [r \in Runs |-> DefaultImgSize]
    /\ \E K \in ClassCounts :
          NUM_CLASSES = [r \in Runs |-> IF r = 1 THEN K ELSE DefaultNumClasses]
    /\ \E sd \in ClassSeeds : rng = [r \in Runs |-> IF r = 1 THEN sd ELSE <<>>]
    /\ pc = [r \in Runs |-> IF r = 1 THEN "setup" ELSE "off"]
    /\ fig = [r \in Runs |-> NoFigure]
    /\ tf_seed = [r \in Runs |-> 0]
    /\ num_samples = [r \in Runs |-> 0]
    /\ i = [r \in Runs |-> 0]
    /\ X = [r \in Runs |-> <<>>]
    /\ y_cls = [r \in Runs |-> <<>>]
    /\ y_bbox = [r \in Runs |-> <<>>]
    /\ result = [r \in Runs |-> NoResult]
    /\ calls = [r \in Runs |-> 0]
    /\ trace = [r \in Runs |-> <<>>]
    /\ rng0 = [r \in Runs |-> <<>>]

\* ---------------------------------------------------------------- actions
\* variant: the seed cell also seeds the random module
SetSeedBoth(r) ==
    /\ pc[r] = "setup"
    /\ tf_seed' = [tf_seed EXCEPT ![r] = TfSeed]
    /\ rng' = [rng EXCEPT ![r] = [k \in 1..Len(@) |-> TfSeed]]
    /\ pc' = [pc EXCEPT ![r] = "idle"]
    /\ UNCHANGED <<IMG_SIZE, NUM_CLASSES, num_samples, i, X, y_cls, y_bbox,
                   result, calls, trace, rng0, fig>>

\* the setup cells: "import random" has seeded the random source from the
\* operating system (the stream Init chose); tf.random.set_seed(42)
SetSeed(r) ==
    /\ pc[r] = "setup"
    /\ tf_seed' = [tf_seed EXCEPT ![r] = TfSeed]
    /\ pc' = [pc EXCEPT ![r] = "idle"]
    /\ UNCHANGED <<IMG_SIZE, NUM_CLASSES, rng, num_samples, i, X, y_cls, y_bbox,
                   result, calls, trace, rng0, fig>>

\* "img_array, labels, bboxes = generate_sample()" at top level
CallGenerateSample(r) ==
    /\ pc[r] = "idle"
    /\ Len(rng[r]) >= 2 * NUM_CLASSES[r]
    /\ \E s \in {GenerateSample(IMG_SIZE[r], NUM_CLASSES[r], rng[r])} :
          /\ rng' = [rng EXCEPT ![r] = s.rng]
          /\ IF s.ok
             THEN /\ result' = [result EXCEPT ![r] = [kind |-> "sample", value |-> Returned(s)]]
                  /\ pc' = pc
             ELSE /\ result' = result
                  /\ pc' = [pc EXCEPT ![r] = "raised"]
    /\ rng0' = [rng0 EXCEPT ![r] = rng[r]]
    /\ UNCHANGED <<fig, tf_seed, IMG_SIZE, NUM_CLASSES, num_samples, i, X, y_cls, y_bbox, calls, trace>>

\* entry of create_dataset(n): X, y_cls, y_bbox = [], [], []
CallCreateDataset(r, n) ==
    /\ pc[r] = "idle"
    /\ Len(rng[r]) >= 2 * NUM_CLASSES[r] * n
    /\ pc' = [pc EXCEPT ![r] = "create_dataset"]
    /\ num_samples' = [num_samples EXCEPT ![r] = n]
    /\ i' = [i EXCEPT ![r] = 0]
    /\ X' = [X EXCEPT ![r] = <<>>]
    /\ y_cls' = [y_cls EXCEPT ![r] = <<>>]
    /\ y_bbox' = [y_bbox EXCEPT ![r] = <<>>]
    /\ calls' = [calls EXCEPT ![r] = 0]
    /\ trace' = [trace EXCEPT ![r] = <<>>]
    /\ rng0' = [rng0 EXCEPT ![r] = rng[r]]
    /\ UNCHANGED <<fig, tf_seed, IMG_SIZE, NUM_CLASSES, rng, result>>

\* variant: the box set is put at the front of its list
LoopIterPrepend(r) ==
    /\ pc[r] = "create_dataset"
    /\ i[r] < num_samples[r]
    /\ \E s \in {GenerateSample(IMG_SIZE[r], NUM_CLASSES[r], rng[r])} :
          /\ rng' = [rng EXCEPT ![r] = s.rng]
          /\ X' = [X EXCEPT ![r] = Append(@, s.img_array)]
          /\ y_cls' = [y_cls EXCEPT ![r] = Append(@, s.labels)]
          /\ y_bbox' = [y_bbox EXCEPT ![r] = <<s.bboxes>> \o @]
          /\ trace' = [trace EXCEPT ![r] = Append(@, Returned(s))]
    /\ calls' = [calls EXCEPT ![r] = @ + 1]
    /\ i' = [i EXCEPT ![r] = @ + 1]
    /\ UNCHANGED <<fig, tf_seed, IMG_SIZE, NUM_CLASSES, num_samples, result, rng0, pc>>

\* variant: the sample is drawn from a source the seed does not fix
LoopIterUnseeded(r) ==
    /\ pc[r] = "create_dataset"
    /\ i[r] < num_samples[r]
    /\ \E st \in PairSeeds :
       \E s \in {GenerateSample(IMG_SIZE[r], NUM_CLASSES[r], st)} :
          /\ X' = [X EXCEPT ![r] = Append(@, s.img_array)]
          /\ y_cls' = [y_cls EXCEPT ![r] = Append(@, s.labels)]
          /\ y_bbox' = [y_bbox EXCEPT ![r] = Append(@, s.bboxes)]
          /\ trace' = [trace EXCEPT ![r] = Append(@, Returned(s))]
    /\ rng' = [rng EXCEPT ![r] = SubSeq(@, 2 * NUM_CLASSES[r] + 1, Len(@))]
    /\ calls' = [calls EXCEPT ![r] = @ + 1]
    /\ i' = [i EXCEPT ![r] = @ + 1]
    /\ UNCHANGED <<fig, tf_seed, IMG_SIZE, NUM_CLASSES, num_samples, result, rng0, pc>>

\* variant: the call rebinds the global canvas size
LoopIterRebinds(r) ==
    /\ pc[r] = "create_dataset"
    /\ i[r] < num_samples[r]
    /\ \E s \in {GenerateSample(IMG_SIZE[r], NUM_CLASSES[r], rng[r])} :
          /\ rng' = [rng EXCEPT ![r] = s.rng]
          /\ X' = [X EXCEPT ![r] = Append(@, s.img_array)]
          /\ y_cls' = [y_cls EXCEPT ![r] = Append(@, s.labels)]
          /\ y_bbox' = [y_bbox EXCEPT ![r] = Append(@, s.bboxes)]
          /\ trace' = [trace EXCEPT ![r] = Append(@, Returned(s))]
    /\ IMG_SIZE' = [IMG_SIZE EXCEPT ![r] = ShapeSize]
    /\ calls' = [calls EXCEPT ![r] = @ + 1]
    /\ i' = [i EXCEPT ![r] = @ + 1]
    /\ UNCHANGED <<fig, tf_seed, NUM_CLASSES, num_samples, result, rng0, pc>>

\* variant: every collected entry refers to one shared buffer, which the
\* latest call overwrites
LoopIterShared(r) ==
    /\ pc[r] = "create_dataset"
    /\ i[r] < num_samples[r]
    /\ \E s \in {GenerateSample(IMG_SIZE[r], NUM_CLASSES[r], rng[r])} :
          /\ rng' = [rng EXCEPT ![r] = s.rng]
          /\ X' = [X EXCEPT ![r] = [k \in 1..(Len(@) + 1) |-> s.img_array]]
          /\ y_cls' = [y_cls EXCEPT ![r] = [k \in 1..(Len(@) + 1) |-> s.labels]]
          /\ y_bbox' = [y_bbox EXCEPT ![r] = [k \in 1..(Len(@) + 1) |-> s.bboxes]]
          /\ trace' = [trace EXCEPT ![r] = Append(@, Returned(s))]
    /\ calls' = [calls EXCEPT ![r] = @ + 1]
    /\ i' = [i EXCEPT ![r] = @ + 1]
    /\ UNCHANGED <<fig, tf_seed, IMG_SIZE, NUM_CLASSES, num_samples, result, rng0, pc>>

\* one iteration of "for _ in range(num_samples)"
LoopIter(r) ==
    /\ pc[r] = "create_dataset"
    /\ i[r] < num_samples[r]
    /\ \E s \in {GenerateSample(IMG_SIZE[r], NUM_CLASSES[r], rng[r])} :
          /\ rng' = [rng EXCEPT ![r] = s.rng]
          /\ calls' = [calls EXCEPT ![r] = @ + 1]
          /\ IF s.ok
             THEN /\ X' = [X EXCEPT ![r] = Append(@, s.img_array)]
                  /\ y_cls' = [y_cls EXCEPT ![r] = Append(@, s.labels)]
                  /\ y_bbox' = [y_bbox EXCEPT ![r] = Append(@, s.bboxes)]
                  /\ trace' = [trace EXCEPT ![r] = Append(@, Returned(s))]
                  /\ i' = [i EXCEPT ![r] = @ + 1]
                  /\ pc' = pc
             ELSE /\ pc' = [pc EXCEPT ![r] = "raised"]
                  /\ UNCHANGED <<X, y_cls, y_bbox, trace, i>>
    /\ UNCHANGED <<fig, tf_seed, IMG_SIZE, NUM_CLASSES, num_samples, result, rng0>>

\* return np.array(X), np.array(y_cls), np.array(y_bbox)
ReturnDataset(r) ==
    /\ pc[r] = "create_dataset"
    /\ i[r] >= num_samples[r]
    /\ result' = [result EXCEPT ![r] =
                    [kind |-> "dataset",
                     value |-> [X |-> NpArray(X[r]), y_cls |-> NpArray(y_cls[r]),
                                y_bbox |-> NpArray(y_bbox[r])]]]
    /\ pc' = [pc EXCEPT ![r] = "idle"]
    /\ UNCHANGED <<fig, tf_seed, IMG_SIZE, NUM_CLASSES, rng, num_samples, i, X, y_cls, y_bbox,
                   calls, trace, rng0>>

\* "plot_sample(img_array, labels, bboxes)" at top level, with the image and
\* the boxes of the sample last generated
PlotSample(r, labels) ==
    /\ pc[r] = "idle"
    /\ result[r].kind = "sample"
    /\ \E f \in {PlotSampleFig(result[r].value.img_array, labels,
                                result[r].value.bboxes, IMG_SIZE[r])} :
          IF f.ok
          THEN /\ fig' = [fig EXCEPT ![r] = f.fig]
               /\ pc' = [pc EXCEPT ![r] = "shown"]
          ELSE /\ fig' = fig
               /\ pc' = [pc EXCEPT ![r] = "raised"]
    /\ UNCHANGED <<IMG_SIZE, NUM_CLASSES, rng, num_samples, i, X, y_cls, y_bbox,
                   result, calls, trace, rng0, tf_seed>>

\* "show_prediction(model, X, idx)" at top level on the dataset last created;
\* the model's prediction is any pred_cls, pred_bbox
ShowPrediction(r, idx, pred_cls, pred_bbox) ==
    /\ pc[r] = "idle"
    /\ result[r].kind = "dataset"
    /\ idx + 1 \in DOMAIN result[r].value.X
    /\ \E f \in {ShowPredictionFig(result[r].value.X[idx + 1], pred_cls, pred_bbox,
                                    IMG_SIZE[r], NUM_CLASSES[r])} :
          IF f.ok
          THEN /\ fig' = [fig EXCEPT ![r] = f.fig]
               /\ pc' = [pc EXCEPT ![r] = "shown"]
          ELSE /\ fig' = fig
               /\ pc' = [pc EXCEPT ![r] = "raised"]
    /\ UNCHANGED <<IMG_SIZE, NUM_CLASSES, rng, num_samples, i, X, y_cls, y_bbox,
                   result, calls, trace, rng0, tf_seed>>

\* plt.show() returns and the viewer returns: its figure is gone
CloseFigure(r) ==
    /\ pc[r] = "shown"
    /\ fig' = [fig EXCEPT ![r] = NoFigure]
    /\ pc' = [pc EXCEPT ![r] = "idle"]
    /\ UNCHANGED <<IMG_SIZE, NUM_CLASSES, rng, num_samples, i, X, y_cls, y_bbox,
                   result, calls, trace, rng0, tf_seed>>

\* the predictions tried: any confidence per slot, the two boxes alternating
PredClsInputs(K) == [0..(K - 1) -> Confidences]
PredBboxInput(K) == [k \in 0..(K - 1) |-> IF k % 2 = 0 THEN PredBoxA ELSE PredBoxB]

Next ==
    \/ \E r \in Runs : SetSeed(r)
    \/ \E r \in Runs : CallGenerateSample(r)
    \/ \E r \in Runs : \E n \in 0..MaxSamples : CallCreateDataset(r, n)
    \/ \E r \in Runs : LoopIter(r)
    \/ \E r \in Runs : ReturnDataset(r)
    \/ \E r \in Runs : \E labels \in [0..(NUM_CLASSES[r] - 1) -> {0, 1}] :
          PlotSample(r, labels)
    \/ \E r \in Runs : \E idx \in IdxInputs :
          \E pred_cls \in PredClsInputs(NUM_CLASSES[r]) :
             ShowPrediction(r, idx, pred_cls, PredBboxInput(NUM_CLASSES[r]))
    \/ \E r \in Runs : CloseFigure(r)

Spec == Init /\ [][Next]_vars

SpecPair == InitPair /\ [][Next]_vars

SpecCfg == InitCfg /\ [][Next]_vars

SpecPixel == InitPixel /\ [][Next]_vars

SpecClasses == InitClasses /\ [][Next]_vars

\* one execution, from the few long streams
InitLive == InitWith({1}, {DefaultImgSize}, PairSeeds)

\* the interpreter runs a started call to its end
LiveSpec == InitLive /\ [][Next]_vars
            /\ \A r \in Runs : WF_vars(LoopIter(r)) /\ WF_vars(ReturnDataset(r))

\* ------------------------------------------------- what a run has produced
\* the samples collected so far by the running create_dataset
ListRows(r) ==
    {[img_array |-> X[r][k], labels |-> y_cls[r][k], bboxes |-> y_bbox[r][k]] :
        k \in 1..Len(X[r])}

\* the samples in the value last returned to the top level
ResultRows(r) ==
    IF result[r].kind = "sample" THEN {result[r].value}
    ELSE IF result[r].kind = "dataset"
    THEN {[img_array |-> result[r].value.X[k], labels |-> result[r].value.y_cls[k],
           bboxes |-> result[r].value.y_bbox[k]] : k \in 1..Len(result[r].value.X)}
    ELSE {}

Samples(r) == ListRows(r) \cup ResultRows(r)

\* the last completed call of run r was create_dataset / generate_sample
ReturnedDataset(r) == pc[r] = "idle" /\ result[r].kind = "dataset"
ReturnedSample(r) == pc[r] = "idle" /\ result[r].kind = "sample"

\* ------------------------------------------------------------------ claims

\* C1: in every returned sample and for every class the pixel box satisfies
\* 0 <= x1 < x2 <= S and 0 <= y1 < y2 <= S, and the normalised box satisfies
\* 0 <= x1 < x2 <= 1 and 0 <= y1 < y2 <= 1.
C1_BoxesInBounds ==
    \A r \in Runs : \A s \in Samples(r) :
        /\ \A k \in DOMAIN s.bboxes :
              LET b == s.bboxes[k]
              IN /\ RLeq(<<0, 1>>, b[1]) /\ RLt(b[1], b[3]) /\ RLeq(b[3], <<1, 1>>)
                 /\ RLeq(<<0, 1>>, b[2]) /\ RLt(b[2], b[4]) /\ RLeq(b[4], <<1, 1>>)
        /\ \A j \in DOMAIN s.img_array.ops :
              LET xy == s.img_array.ops[j].xy
              IN /\ 0 <= xy[1] /\ xy[1] < xy[3] /\ xy[3] <= IMG_SIZE[r]
                 /\ 0 <= xy[2] /\ xy[2] < xy[4] /\ xy[4] <= IMG_SIZE[r]

\* a sample whose box reaches the largest x2 and y2 the draws allow has been returned
C1_Witness ==
    \E r \in Runs : \E s \in Samples(r) : \E k \in DOMAIN s.bboxes :
        REq(s.bboxes[k][3], <<50, 64>>) /\ REq(s.bboxes[k][4], <<50, 64>>)

\* C2: in every returned sample every class's box is 20 pixels wide and
\* high: x2 - x1 = 20/S and y2 - y1 = 20/S.
C2_FixedExtent ==
    \A r \in Runs : \A s \in Samples(r) : \A k \in DOMAIN s.bboxes :
        LET b == s.bboxes[k]
        IN /\ REq(RSub(b[3], b[1]), <<20, IMG_SIZE[r]>>)
           /\ REq(RSub(b[4], b[2]), <<20, IMG_SIZE[r]>>)

\* a sample with two boxes at different positions has been returned
C2_Witness ==
    \E r \in Runs : \E s \in Samples(r) :
        /\ DOMAIN s.bboxes = 0..1
        /\ s.bboxes[0][1] # s.bboxes[1][1]
        /\ s.bboxes[0][2] # s.bboxes[1][2]

\* C3 as stated: x1 and y1 of every class lie in [5, S-35], so x2 and y2
\* never exceed S-15.
C3_Original ==
    \A r \in Runs : \A s \in Samples(r) : \A k \in DOMAIN s.bboxes :
        LET b == s.bboxes[k]
            S == IMG_SIZE[r]
        IN /\ RLeq(<<5, S>>, b[1]) /\ RLeq(b[1], <<S - 35, S>>)
           /\ RLeq(<<5, S>>, b[2]) /\ RLeq(b[2], <<S - 35, S>>)
           /\ RLeq(b[3], <<S - 15, S>>) /\ RLeq(b[4], <<S - 15, S>>)

\* C3 amended: x1 and y1 of every class lie in the closed range [5, 30]
\* (30 = S-34 for S = 64), so x2 and y2 never exceed 50 (= S-14 for S = 64).
C3_DrawRange ==
    \A r \in Runs : \A s \in Samples(r) : \A k \in DOMAIN s.bboxes :
        LET b == s.bboxes[k]
            S == IMG_SIZE[r]
        IN /\ RLeq(<<5, S>>, b[1]) /\ RLeq(b[1], <<30, S>>)
           /\ RLeq(<<5, S>>, b[2]) /\ RLeq(b[2], <<30, S>>)
           /\ RLeq(b[3], <<50, S>>) /\ RLeq(b[4], <<50, S>>)

\* a sample with x1 = 30 for one class and x1 = 5 for the other has been returned
C3_Witness ==
    \E r \in Runs : \E s \in Samples(r) : \E k, m \in DOMAIN s.bboxes :
        REq(s.bboxes[k][1], <<30, 64>>) /\ REq(s.bboxes[m][1], <<5, 64>>)

\* C4: in every returned sample the presence vector has length NUM_CLASSES
\* and every entry is 1.
C4_AllPresent ==
    \A r \in Runs : \A s \in Samples(r) :
        /\ DOMAIN s.labels = 0..(NUM_CLASSES[r] - 1)
        /\ Cardinality(DOMAIN s.labels) = NUM_CLASSES[r]
        /\ \A k \in DOMAIN s.labels : s.labels[k] = 1

\* a returned dataset holds the presence vectors of MaxSamples samples
C4_Witness ==
    \E r \in Runs : ReturnedDataset(r) /\ Len(result[r].value.y_cls) = MaxSamples
                    /\ Cardinality(DOMAIN result[r].value.y_cls[1]) = 2

\* C5: the three sequences of create_dataset are index-aligned with the
\* generate_sample invocations in call order, and a returned dataset has
\* exactly num_samples entries in each.
C5_IndexAligned ==
    \A r \in Runs :
        /\ Len(X[r]) = Len(trace[r]) /\ Len(y_cls[r]) = Len(trace[r])
        /\ Len(y_bbox[r]) = Len(trace[r])
        /\ \A k \in 1..Len(trace[r]) :
              /\ X[r][k] = trace[r][k].img_array
              /\ y_cls[r][k] = trace[r][k].labels
              /\ y_bbox[r][k] = trace[r][k].bboxes
        /\ ReturnedDataset(r) =>
              LET v == result[r].value
              IN /\ Len(v.X) = num_samples[r] /\ Len(v.y_cls) = num_samples[r]
                 /\ Len(v.y_bbox) = num_samples[r]
                 /\ Len(trace[r]) = num_samples[r]
                 /\ \A k \in 1..num_samples[r] :
                       /\ v.X[k] = trace[r][k].img_array
                       /\ v.y_cls[k] = trace[r][k].labels
                       /\ v.y_bbox[k] = trace[r][k].bboxes

\* a dataset of two different samples has been returned
C5_Witness ==
    \E r \in Runs : /\ ReturnedDataset(r) /\ num_samples[r] = 2
                    /\ Len(result[r].value.X) = 2
                    /\ result[r].value.y_bbox[1] # result[r].value.y_bbox[2]
                    /\ result[r].value.X[1] # result[r].value.X[2]

DrawOf(r, n) == 5 + (rng0[r][n] % 26)

\* C7: with S = 64 and K = 2, draws (10, 10) for class 0 and (20, 15) for
\* class 1 give boxes[0] = (0.15625, 0.15625, 0.46875, 0.46875) and
\* boxes[1] = (0.3125, 0.234375, 0.625, 0.546875); in general boxes[k] =
\* (x1/S, y1/S, (x1+20)/S, (y1+20)/S) for the k-th pair of draws.
C7_Example ==
    \A r \in Runs : ReturnedSample(r) =>
        LET b == result[r].value.bboxes
            S == IMG_SIZE[r]
        IN /\ \A k \in 0..(NUM_CLASSES[r] - 1) :
                 LET x1 == DrawOf(r, 2 * k + 1)
                     y1 == DrawOf(r, 2 * k + 2)
                 IN /\ REq(b[k][1], <<x1, S>>) /\ REq(b[k][2], <<y1, S>>)
                    /\ REq(b[k][3], <<x1 + 20, S>>) /\ REq(b[k][4], <<y1 + 20, S>>)
           /\ (/\ S = 64 /\ NUM_CLASSES[r] = 2
               /\ DrawOf(r, 1) = 10 /\ DrawOf(r, 2) = 10
               /\ DrawOf(r, 3) = 20 /\ DrawOf(r, 4) = 15)
              => /\ REq(b[0][1], <<15625, 100000>>) /\ REq(b[0][2], <<15625, 100000>>)
                 /\ REq(b[0][3], <<46875, 100000>>) /\ REq(b[0][4], <<46875, 100000>>)
                 /\ REq(b[1][1], <<3125, 10000>>) /\ REq(b[1][2], <<234375, 1000000>>)
                 /\ REq(b[1][3], <<625, 1000>>) /\ REq(b[1][4], <<546875, 1000000>>)

\* generate_sample has returned after the draws 10, 10, 20, 15
C7_Witness ==
    \E r \in Runs : /\ ReturnedSample(r) /\ IMG_SIZE[r] = 64 /\ NUM_CLASSES[r] = 2
                    /\ DrawOf(r, 1) = 10 /\ DrawOf(r, 2) = 10
                    /\ DrawOf(r, 3) = 20 /\ DrawOf(r, 4) = 15

\* C8: generate_sample never raises, and every create_dataset(count) call
\* returns, after exactly count generate_sample invocations, three sequences
\* of length count (empty ones for count = 0).
C8_Terminates ==
    /\ [](\A r \in Runs : pc[r] # "raised")
    /\ \A r \in Runs :
          (pc[r] = "create_dataset")
             ~> (/\ ReturnedDataset(r) /\ calls[r] = num_samples[r]
                 /\ Len(result[r].value.X) = num_samples[r]
                 /\ Len(result[r].value.y_cls) = num_samples[r]
                 /\ Len(result[r].value.y_bbox) = num_samples[r])

\* create_dataset(MaxSamples) has returned after MaxSamples invocations
C8_Witness ==
    \E r \in Runs : /\ ReturnedDataset(r) /\ num_samples[r] = MaxSamples
                    /\ calls[r] = MaxSamples
                    /\ Len(result[r].value.X) = MaxSamples

\* C9 as stated: with a canvas too small for the shape and its margins
\* generate_sample rejects the configuration, and no returned sample has a
\* box that extends past the canvas (a normalised coordinate above 1).
C9_MisconfigurationRejected ==
    \A r \in Runs :
        /\ (IMG_SIZE[r] < RandHi + ShapeSize) => Samples(r) = {}
        /\ \A s \in Samples(r) : \A k \in DOMAIN s.bboxes :
              RLeq(s.bboxes[k][3], <<1, 1>>) /\ RLeq(s.bboxes[k][4], <<1, 1>>)

\* C10: a generate_sample invocation changes nothing but the random source,
\* which it advances by 2*K draws, and the value it returns: IMG_SIZE and
\* NUM_CLASSES are never changed, nor the call's argument, nor what the
\* caller already holds.
C10_Frame ==
    [][/\ IMG_SIZE' = IMG_SIZE
       /\ NUM_CLASSES' = NUM_CLASSES
       /\ \A r \in Runs : rng'[r] # rng[r] =>
             /\ Len(rng'[r]) = Len(rng[r]) - 2 * NUM_CLASSES[r]
             /\ \A n \in 1..Len(rng'[r]) : rng'[r][n] = rng[r][n + 2 * NUM_CLASSES[r]]
             /\ num_samples'[r] = num_samples[r]
             /\ pc[r] = "create_dataset" => result'[r] = result[r]
             /\ pc[r] = "idle" => /\ X'[r] = X[r] /\ y_cls'[r] = y_cls[r]
                                  /\ y_bbox'[r] = y_bbox[r] /\ i'[r] = i[r]
             /\ \A q \in Runs \ {r} :
                   /\ rng'[q] = rng[q] /\ result'[q] = result[q] /\ X'[q] = X[q]
                   /\ y_cls'[q] = y_cls[q] /\ y_bbox'[q] = y_bbox[q]
      ]_vars

\* generate_sample has run inside create_dataset after an earlier direct call
C10_Witness ==
    \E r \in Runs : /\ pc[r] = "create_dataset" /\ Len(X[r]) >= 1
                    /\ result[r].kind # "none"
                    /\ IMG_SIZE[r] = 64 /\ NUM_CLASSES[r] = 2

\* two normalised boxes share interior points
Intersect(a, b) ==
    /\ RLt(a[1], b[3]) /\ RLt(b[1], a[3])
    /\ RLt(a[2], b[4]) /\ RLt(b[2], a[4])

\* C11: there is no collision avoidance: when the draws of class 0 and of
\* class 1 put the two shapes less than 20 pixels apart in both directions,
\* the returned boxes intersect, and when both classes draw the same x1, y1
\* the two boxes coincide.
C11_NoCollisionAvoidance ==
    \A r \in Runs : (ReturnedSample(r) /\ NUM_CLASSES[r] = 2) =>
        LET b == result[r].value.bboxes
            dx == DrawOf(r, 1) - DrawOf(r, 3)
            dy == DrawOf(r, 2) - DrawOf(r, 4)
        IN /\ (-20 < dx /\ dx < 20 /\ -20 < dy /\ dy < 20) => Intersect(b[0], b[1])
           /\ (dx = 0 /\ dy = 0) =>
                 \A j \in 1..4 : REq(b[0][j], b[1][j])

\* a sample in which the class-1 box fully covers the class-0 box has been returned
C11_Witness ==
    \E r \in Runs : /\ ReturnedSample(r) /\ NUM_CLASSES[r] = 2
                    /\ Intersect(result[r].value.bboxes[0], result[r].value.bboxes[1])
                    /\ \A j \in 1..4 : REq(result[r].value.bboxes[0][j],
                                           result[r].value.bboxes[1][j])

\* C13: while create_dataset runs, the entries already collected are not
\* changed by later generate_sample calls, and they are returned unchanged.
C13_CollectedUnchanged ==
    [][\A r \in Runs : pc[r] = "create_dataset" =>
          /\ pc'[r] = "create_dataset" =>
                /\ Len(X'[r]) >= Len(X[r]) /\ Len(y_cls'[r]) >= Len(y_cls[r])
                /\ Len(y_bbox'[r]) >= Len(y_bbox[r])
                /\ \A k \in 1..Len(X[r]) :
                      /\ X'[r][k] = X[r][k] /\ y_cls'[r][k] = y_cls[r][k]
                      /\ y_bbox'[r][k] = y_bbox[r][k]
          /\ (pc'[r] = "idle" /\ result'[r].kind = "dataset") =>
                /\ Len(result'[r].value.X) = Len(X[r])
                /\ \A k \in 1..Len(X[r]) :
                      /\ result'[r].value.X[k] = X[r][k]
                      /\ result'[r].value.y_cls[k] = y_cls[r][k]
                      /\ result'[r].value.y_bbox[k] = y_bbox[r][k]
      ]_vars

\* a second, different sample has been collected after the first
C13_Witness ==
    \E r \in Runs : /\ pc[r] = "create_dataset" /\ Len(X[r]) = 2
                    /\ X[r][1] # X[r][2] /\ y_bbox[r][1] # y_bbox[r][2]
                    /\ X[r][1] = trace[r][1].img_array

\* C15: a generate_sample call consumes exactly 2*K draws, x1 then y1 for
\* class 0, then x1 then y1 for class 1, ...; after calls invocations
\* create_dataset has consumed 2*K*calls draws, and the i-th collected sample
\* is fixed by the draws 2*K*i .. 2*K*(i+1)-1 of the stream at entry.
C15_DrawsConsumed ==
    \A r \in Runs : (pc[r] = "create_dataset" \/ ReturnedDataset(r)) =>
        LET K == NUM_CLASSES[r]
            S == IMG_SIZE[r]
            used == 2 * K * calls[r]
        IN /\ Len(rng[r]) = Len(rng0[r]) - used
           /\ \A n \in 1..Len(rng[r]) : rng[r][n] = rng0[r][n + used]
           /\ ReturnedDataset(r) => calls[r] = num_samples[r]
           /\ Len(y_bbox[r]) = calls[r]
           /\ \A m \in 1..calls[r] : \A k \in 0..(K - 1) :
                 LET x1 == 5 + (rng0[r][2 * K * (m - 1) + 2 * k + 1] % 26)
                     y1 == 5 + (rng0[r][2 * K * (m - 1) + 2 * k + 2] % 26)
                 IN /\ REq(y_bbox[r][m][k][1], <<x1, S>>)
                    /\ REq(y_bbox[r][m][k][2], <<y1, S>>)
                    /\ X[r][m].ops[k + 1].xy[1] = x1
                    /\ X[r][m].ops[k + 1].xy[2] = y1

\* create_dataset(2) has returned after consuming draws with x1 # y1
C15_Witness ==
    \E r \in Runs : /\ ReturnedDataset(r) /\ num_samples[r] = 2 /\ calls[r] = 2
                    /\ Len(rng[r]) = Len(rng0[r]) - 8
                    /\ rng0[r][1] # rng0[r][2] /\ rng0[r][7] # rng0[r][8]

\* a shape for class k was drawn on the sample's canvas at the class's box
Rendered(s, k, S) ==
    /\ k + 1 \in DOMAIN s.img_array.ops
    /\ \A j \in 1..4 : REq(s.bboxes[k][j], <<s.img_array.ops[k + 1].xy[j], S>>)

\* C12 as stated: for every class count and every class k, presence[k] = 1
\* and a box is recorded for class k only if a shape for class k was drawn.
C12_PresenceMeansDrawn ==
    \A r \in Runs : \A s \in Samples(r) : \A k \in DOMAIN s.labels :
        (s.labels[k] = 1 \/ \E j \in 1..4 : s.bboxes[k][j][1] # 0)
            => Rendered(s, k, IMG_SIZE[r])

\* the samples of the value a call has just returned to the top level
ReturnedRows(r) == IF pc[r] = "idle" THEN ResultRows(r) ELSE {}

\* the three colours an image may hold, as pixel values
PixelBlack == <<<<0, 255>>, <<0, 255>>, <<0, 255>>>>
PixelRed == <<<<255, 255>>, <<0, 255>>, <<0, 255>>>>
PixelBlue == <<<<0, 255>>, <<0, 255>>, <<255, 255>>>>

\* pixel (px, py) lies in the pixel range [x1..x2] x [y1..y2] of normalised box b
InBox(b, px, py, S) ==
    /\ RLeq(b[1], <<px, S>>) /\ RLeq(<<px, S>>, b[3])
    /\ RLeq(b[2], <<py, S>>) /\ RLeq(<<py, S>>, b[4])

\* C14: in every returned image each pixel is black, red or blue, every
\* pixel outside the pixel ranges of all class boxes is black, and every
\* channel is an integer in 0..255 divided by 255, hence in [0, 1].
C14_ImagePixels ==
    \A r \in Runs : \A s \in ReturnedRows(r) :
        \A px \in 0..(IMG_SIZE[r] - 1) : \A py \in 0..(IMG_SIZE[r] - 1) :
            LET v == PixelAt(s.img_array, px, py)
            IN /\ v \in {PixelBlack, PixelRed, PixelBlue}
               /\ \A c \in 1..3 : /\ v[c][2] = 255 /\ v[c][1] \in 0..255
                                  /\ RLeq(<<0, 1>>, v[c]) /\ RLeq(v[c], <<1, 1>>)
               /\ (\A k \in DOMAIN s.bboxes : ~InBox(s.bboxes[k], px, py, IMG_SIZE[r]))
                     => v = PixelBlack

\* an image with black, red and blue pixels has been returned
C14_Witness ==
    \E r \in Runs : /\ ReturnedSample(r)
                    /\ PixelAt(result[r].value.img_array, 0, 0) = PixelBlack
                    /\ \E px, py \in 0..(IMG_SIZE[r] - 1) :
                          PixelAt(result[r].value.img_array, px, py) = PixelRed
                    /\ \E px, py \in 0..(IMG_SIZE[r] - 1) :
                          PixelAt(result[r].value.img_array, px, py) = PixelBlue

\* C16: plot_sample overlays a box for class k exactly when labels[k] is
\* non-zero, and the box it draws has the pixel corner (x1, y1) that
\* generate_sample used and width and height 20.
C16_PlotRoundTrip ==
    \A r \in Runs : (pc[r] = "shown" /\ fig[r].kind = "plot_sample") =>
        /\ \A k \in DOMAIN fig[r].given :
              /\ (k \in DOMAIN fig[r].patches) <=> (fig[r].given[k] # 0)
              /\ (k \in DOMAIN fig[r].texts) <=> (fig[r].given[k] # 0)
        /\ \A k \in DOMAIN fig[r].patches :
              LET raw == result[r].value.img_array.ops[k + 1].xy
                  rect == fig[r].patches[k]
              IN /\ REq(rect.xy[1], <<raw[1], 1>>) /\ REq(rect.xy[2], <<raw[2], 1>>)
                 /\ REq(rect.width, <<20, 1>>) /\ REq(rect.height, <<20, 1>>)
                 /\ raw[3] = raw[1] + 20 /\ raw[4] = raw[2] + 20
                 /\ rect.edgecolor = (IF k = 0 THEN "violet" ELSE "yellow")

\* plot_sample has drawn the box of class 0 and none for class 1, flagged 0
C16_Witness ==
    \E r \in Runs : /\ pc[r] = "shown" /\ fig[r].kind = "plot_sample"
                    /\ fig[r].given[0] = 1 /\ fig[r].given[1] = 0
                    /\ DOMAIN fig[r].patches = {0}
                    /\ REq(fig[r].patches[0].xy[1], <<30, 1>>)

\* C17: no step seeds the random module: the step that sets the TensorFlow
\* seed sets it to 42 and leaves the random source as the operating system
\* seeded it, and every other change of the random source is an advance of
\* it; so runs with the same TensorFlow seed may hold different streams.
C17_RandomNeverSeeded ==
    [][\A r \in Runs :
          /\ tf_seed'[r] # tf_seed[r] => (tf_seed'[r] = 42 /\ rng'[r] = rng[r])
          /\ rng'[r] # rng[r] =>
                /\ tf_seed'[r] = tf_seed[r]
                /\ Len(rng'[r]) < Len(rng[r])
                /\ \A n \in 1..Len(rng'[r]) :
                      rng'[r][n] = rng[r][n + Len(rng[r]) - Len(rng'[r])]
      ]_vars

\* two runs with the TensorFlow seed 42 have created different datasets of
\* the same size
C17_Witness ==
    \E r1, r2 \in Runs :
        /\ r1 # r2 /\ tf_seed[r1] = 42 /\ tf_seed[r2] = 42
        /\ ReturnedDataset(r1) /\ ReturnedDataset(r2)
        /\ num_samples[r1] = 2 /\ num_samples[r2] = 2
        /\ result[r1].value.y_bbox # result[r2].value.y_bbox
        /\ result[r1].value.X # result[r2].value.X

\* C18: classes are drawn in increasing order on one canvas: every pixel
\* the class-1 ellipse covers is blue, the class-0 square shows red only
\* where the ellipse does not cover it, and boxes[0] keeps the square's
\* full 20-pixel extent.
C18_LaterClassOnTop ==
    \A r \in Runs : \A s \in ReturnedRows(r) :
        /\ \A px \in 0..(IMG_SIZE[r] - 1) : \A py \in 0..(IMG_SIZE[r] - 1) :
              LET ops == s.img_array.ops
                  inEllipse == \E j \in DOMAIN ops :
                                  ops[j].shape = "ellipse" /\ Covers(ops[j], px, py)
                  inSquare == \E j \in DOMAIN ops :
                                  ops[j].shape = "rectangle" /\ Covers(ops[j], px, py)
              IN /\ inEllipse => PixelAt(s.img_array, px, py) = PixelBlue
                 /\ (inSquare /\ ~inEllipse) => PixelAt(s.img_array, px, py) = PixelRed
        /\ REq(RSub(s.bboxes[0][3], s.bboxes[0][1]), <<20, IMG_SIZE[r]>>)
        /\ REq(RSub(s.bboxes[0][4], s.bboxes[0][2]), <<20, IMG_SIZE[r]>>)

\* a sample has been returned in which the ellipse hides part of the square
C18_Witness ==
    \E r \in Runs :
        /\ ReturnedSample(r)
        /\ \E px, py \in 0..(IMG_SIZE[r] - 1) :
              /\ \A j \in DOMAIN result[r].value.img_array.ops :
                    Covers(result[r].value.img_array.ops[j], px, py)
              /\ PixelAt(result[r].value.img_array, px, py) = PixelBlue
        /\ \E px, py \in 0..(IMG_SIZE[r] - 1) :
              PixelAt(result[r].value.img_array, px, py) = PixelRed

\* C19: show_prediction draws a box and a label for class slot i exactly
\* when pred_cls[i] > 0.5 (none at exactly 0.5 or below), each slot on its
\* own, and the box is pred_bbox[i] scaled by IMG_SIZE.
C19_PredictionThreshold ==
    \A r \in Runs : (pc[r] = "shown" /\ fig[r].kind = "show_prediction") =>
        \A k \in 0..(NUM_CLASSES[r] - 1) :
            LET c == fig[r].given[k]
                b == fig[r].boxes[k]
                S == IMG_SIZE[r]
            IN /\ (k \in DOMAIN fig[r].patches) <=> (2 * c[1] > c[2])
               /\ (k \in DOMAIN fig[r].texts) <=> (2 * c[1] > c[2])
               /\ k \in DOMAIN fig[r].patches =>
                     /\ REq(fig[r].patches[k].xy[1], <<b[1][1] * S, b[1][2]>>)
                     /\ REq(fig[r].patches[k].xy[2], <<b[2][1] * S, b[2][2]>>)
                     /\ REq(fig[r].patches[k].width,
                            <<(b[3][1] - b[1][1]) * S, b[1][2]>>)
                     /\ REq(fig[r].patches[k].height,
                            <<(b[4][1] - b[2][1]) * S, b[2][2]>>)
                     /\ REq(fig[r].texts[k].conf, c)

\* a prediction with confidence exactly 0.5 for slot 0 and 0.75 for slot 1
\* has been shown: slot 1 only is drawn, at its own box
C19_Witness ==
    \E r \in Runs : /\ pc[r] = "shown" /\ fig[r].kind = "show_prediction"
                    /\ fig[r].given[0] = <<1, 2>> /\ fig[r].given[1] = <<3, 4>>
                    /\ DOMAIN fig[r].patches = {1}
                    /\ REq(fig[r].patches[1].xy[1], <<16, 1>>)
                    /\ REq(fig[r].patches[1].xy[2], <<24, 1>>)

====
